---- MODULE Spec2Model ----
(***************************************************************************)
(* Procedure (custom block) management of scratch-blocks:                   *)
(* Blockly.Procedures (core/procedures.js).  A workspace is a sequence of   *)
(* top-level stacks of blocks; the operations are rename (with the          *)
(* findLegalName loop), isNameUsed, getCallers, mutateCallers,             *)
(* deleteProcedureDefCallback and allProcedures.  The undo reducer of the   *)
(* paint editor (scratch-paint, reducers/undo.js) is modelled beside it.    *)
(***************************************************************************)
EXTENDS Integers, Sequences, FiniteSets, TLC

\* ------------------------------------------------------------------ bounds
\* Iterations of the findLegalName loop the model follows before it stops
\* following a call that is still looping.
MaxIter == 3
\* Longest undo stack of the paint editor the model follows.
MaxStack == 4

\* ------------------------------------------------------------ block types
DefNoReturn == "procedures_defnoreturn"
DefReturn == "procedures_defreturn"
CallNoReturn == "procedures_callnoreturn"
CallReturn == "procedures_callreturn"
Plain == "control_wait"

\* ---------------------------------------------------------------- strings
\* A JavaScript string is a sequence of one-character strings.
Digits == <<"0", "1", "2", "3", "4", "5", "6", "7", "8", "9">>
Nbsp == "xa0"
WhiteSpace == {" ", "\t", Nbsp}

IsDigit(c) == \E i \in 1..10 : Digits[i] = c
DigitVal(c) == (CHOOSE i \in 1..10 : Digits[i] = c) - 1

\* String.prototype.toLowerCase on one character
LowerChar(c) ==
  CASE c = "A" -> "a"
    [] c = "B" -> "b"
    [] OTHER -> c

toLowerCase(s) == [i \in 1..Len(s) |-> LowerChar(s[i])]

\* Blockly.Names.equals: case-insensitive comparison of two names
NamesEquals(n1, n2) == toLowerCase(n1) = toLowerCase(n2)

\* parseInt(digits, 10) of a non-empty run of decimal digits
RECURSIVE parseInt(_)
parseInt(ds) ==
  IF Len(ds) = 0 THEN 0
  ELSE 10 * parseInt(SubSeq(ds, 1, Len(ds) - 1)) + DigitVal(ds[Len(ds)])

\* Number to string conversion of a non-negative integer
RECURSIVE numToString(_)
numToString(n) ==
  IF n < 10 THEN <<Digits[n + 1]>>
  ELSE Append(numToString(n \div 10), Digits[(n % 10) + 1])

\* Length of the maximal run of digits at the end of s: group 2 of
\* /^(.*?)(\d+)$/ (the lazy prefix leaves every trailing digit to \d+).
RECURSIVE trailingDigits(_)
trailingDigits(s) ==
  IF Len(s) = 0 \/ ~IsDigit(s[Len(s)]) THEN 0
  ELSE 1 + trailingDigits(SubSeq(s, 1, Len(s) - 1))

\* The body of the findLegalName loop: the next candidate name.
nextCandidate(name) ==
  LET k == trailingDigits(name)
      n == Len(name)
  IN IF k = 0 THEN Append(name, "2")
     ELSE SubSeq(name, 1, n - k) \o numToString(parseInt(SubSeq(name, n - k + 1, n)) + 1)

\* name.replace(/^[\s\xa0]+|[\s\xa0]+$/g, '')
RECURSIVE trimLeft(_)
trimLeft(s) ==
  IF Len(s) > 0 /\ s[1] \in WhiteSpace THEN trimLeft(Tail(s)) ELSE s

RECURSIVE trimRight(_)
trimRight(s) ==
  IF Len(s) > 0 /\ s[Len(s)] \in WhiteSpace THEN trimRight(SubSeq(s, 1, Len(s) - 1)) ELSE s

trim(s) == trimRight(trimLeft(s))

\* ------------------------------------------------------------------ state
VARIABLES
  stacks,      \* the workspace: top-level stacks in getTopBlocks order, each
               \* the getDescendants sequence of its top block (top first)
  blk,         \* block id -> [type, name, params, isInFlyout]
  pc,          \* "idle", or "findLegalName" while rename is in its loop
  frame,       \* locals of the rename in progress
  ret,         \* the last completed call: operation, arguments, result
  events,      \* events fired so far, oldest first
  group,       \* Blockly.Events group (0: none)
  groupsOpened, \* number of setGroup(true) calls so far
  recordUndo,  \* Blockly.Events.recordUndo
  undoState,   \* paint editor undo reducer state: [stack, pointer]
  undoAction,  \* the last action dispatched to the undo reducer
  undoPrev     \* the state that action was applied to

procVars == <<stacks, blk, pc, frame, ret, events, group, groupsOpened, recordUndo>>
undoVars == <<undoState, undoAction, undoPrev>>
vars == <<stacks, blk, pc, frame, ret, events, group, groupsOpened, recordUndo,
          undoState, undoAction, undoPrev>>

Ids == 1..5
NoBlock == 0

\* ------------------------------------------------------------- name pools
Name_a == <<"a">>
Name_A == <<"A">>
Name_a2 == <<"a", "2">>

\* names typed into the name field
RawNames == {<<"\t", "a", Nbsp, " ">>, Name_A, Name_a2}
\* names asked about
QueryNames == {Name_a, Name_A, Name_a2}

Params1 == <<"x">>
Params2 == <<"x", "y">>

\* ------------------------------------------------------ workspace access
RECURSIVE Flatten(_)
Flatten(ss) == IF Len(ss) = 0 THEN <<>> ELSE Head(ss) \o Flatten(Tail(ss))

Range(s) == {s[i] : i \in 1..Len(s)}

\* workspace.getTopBlocks()
getTopBlocks == [i \in 1..Len(stacks) |-> Head(stacks[i])]
\* workspace.getAllBlocks()
getAllBlocks == Flatten(stacks)
\* block.getDescendants() of a top block
getDescendants(top) == stacks[CHOOSE i \in 1..Len(stacks) : Head(stacks[i]) = top]

InWorkspace(b) == b \in Range(getAllBlocks)

\* capability checks: blocks[i].getProcedureDef / blocks[i].renameProcedure
HasGetProcedureDef(b) == blk[b].type \in {DefNoReturn, DefReturn}
HasRenameProcedure(b) == blk[b].type \in {CallNoReturn, CallReturn}

\* block.getProcedureDef(): [name, params, hasReturn]
getProcedureDef(b) == <<blk[b].name, blk[b].params, blk[b].type = DefReturn>>
\* block.getProcCode()
getProcCode(b) == blk[b].name

\* ---------------------------------------------------------- isNameUsed
RECURSIVE isNameUsedFrom(_, _, _, _)
isNameUsedFrom(blocks, i, name, opt_exclude) ==
  IF i > Len(blocks) THEN TRUE
  ELSE IF blocks[i] = opt_exclude THEN isNameUsedFrom(blocks, i + 1, name, opt_exclude)
  ELSE IF HasGetProcedureDef(blocks[i])
          /\ NamesEquals(getProcedureDef(blocks[i])[1], name) THEN FALSE
  ELSE isNameUsedFrom(blocks, i + 1, name, opt_exclude)

isNameUsed(name, opt_exclude) == isNameUsedFrom(getAllBlocks, 1, name, opt_exclude)

isLegalName_(name, opt_exclude) == ~isNameUsed(name, opt_exclude)

\* ------------------------------------------------------------ getCallers
\* investigate without the test on definitionRoot
RECURSIVE investigate_noSkip(_, _, _, _)
investigate_noSkip(topBlocks, i, definitionRoot, allowRecursive) ==
  IF i > Len(topBlocks) THEN <<>>
  ELSE getDescendants(topBlocks[i])
         \o investigate_noSkip(topBlocks, i + 1, definitionRoot, allowRecursive)

\* First loop: the stacks to investigate.  definitionRoot = NoBlock models a
\* call that passes no definitionRoot (undefined).
RECURSIVE investigate(_, _, _, _)
investigate(topBlocks, i, definitionRoot, allowRecursive) ==
  IF i > Len(topBlocks) THEN <<>>
  ELSE IF topBlocks[i] = definitionRoot /\ ~allowRecursive
       THEN investigate(topBlocks, i + 1, definitionRoot, allowRecursive)
       ELSE getDescendants(topBlocks[i])
              \o investigate(topBlocks, i + 1, definitionRoot, allowRecursive)

\* IsCaller comparing the procCode with Blockly.Names.equals
IsCaller_ignoreCase(b, name) == blk[b].type = CallNoReturn /\ NamesEquals(getProcCode(b), name)

IsCaller(b, name) == blk[b].type = CallNoReturn /\ getProcCode(b) = name

\* Second loop: keep the call blocks whose procCode is name.
getCallers(name, definitionRoot, allowRecursive) ==
  SelectSeq(investigate(getTopBlocks, 1, definitionRoot, allowRecursive),
            LAMBDA b : IsCaller(b, name))

\* definitionRoot.id is read for every top block: with definitionRoot
\* undefined the read throws a TypeError as soon as there is a top block.
getCallersThrows(definitionRoot) == definitionRoot = NoBlock /\ Len(stacks) > 0

\* ------------------------------------------------- mutation snapshots
\* block.mutationToDom(): the serialized signature the block carries
mutationToDom(b) == [name |-> blk[b].name, params |-> blk[b].params]
\* block.domToMutation(xmlElement), as a new block table
domToMutation(table, b, xmlElement) ==
  [table EXCEPT ![b].name = xmlElement.name, ![b].params = xmlElement.params]

\* block.renameProcedure(oldName, newName) of a call block, as a new table
renameProcedure(table, b, oldName, newName) ==
  IF NamesEquals(oldName, table[b].name)
  THEN [table EXCEPT ![b].name = newName]
  ELSE table

\* ------------------------------------------------------- call records
NoFrame == [block |-> NoBlock, name |-> <<>>, legal |-> <<>>, oldName |-> <<>>, iter |-> 0]

NoRet == [op |-> "none", name |-> <<>>, block |-> NoBlock, flag |-> FALSE,
          bool |-> FALSE, seq |-> <<>>, seq2 |-> <<>>, str |-> <<>>, old |-> <<>>,
          threw |-> FALSE]

\* --------------------------------------------------------- allProcedures
\* String.prototype.localeCompare on the characters of names: digits sort
\* before letters, and letters that differ only in case compare equal at
\* the first level and lower case first after that.
CharRank(c) ==
  CASE IsDigit(c) -> DigitVal(c)
    [] LowerChar(c) = "a" -> 10
    [] LowerChar(c) = "b" -> 11
    [] OTHER -> -1

RECURSIVE primaryCompare(_, _)
primaryCompare(s, t) ==
  IF Len(s) = 0 /\ Len(t) = 0 THEN 0
  ELSE IF Len(s) = 0 THEN -1
  ELSE IF Len(t) = 0 THEN 1
  ELSE IF CharRank(Head(s)) < CharRank(Head(t)) THEN -1
  ELSE IF CharRank(Head(s)) > CharRank(Head(t)) THEN 1
  ELSE primaryCompare(Tail(s), Tail(t))

RECURSIVE caseCompare(_, _)
caseCompare(s, t) ==
  IF Len(s) = 0 \/ Len(t) = 0 THEN 0
  ELSE IF Head(s) = Head(t) THEN caseCompare(Tail(s), Tail(t))
  ELSE IF LowerChar(Head(s)) = Head(s) THEN -1 ELSE 1

localeCompare(s, t) ==
  IF primaryCompare(s, t) /= 0 THEN primaryCompare(s, t) ELSE caseCompare(s, t)

\* the comparator without toLowerCase
procTupleComparator_caseSensitive(ta, tb) == localeCompare(ta[1], tb[1])

procTupleComparator_(ta, tb) == localeCompare(toLowerCase(ta[1]), toLowerCase(tb[1]))

\* Array.prototype.sort with procTupleComparator_ (a stable sort)
RECURSIVE insertTuple(_, _)
insertTuple(sorted, t) ==
  IF Len(sorted) = 0 THEN <<t>>
  ELSE IF procTupleComparator_(sorted[Len(sorted)], t) <= 0 THEN Append(sorted, t)
  ELSE Append(insertTuple(SubSeq(sorted, 1, Len(sorted) - 1), t), sorted[Len(sorted)])

RECURSIVE sortFrom(_, _)
sortFrom(list, sorted) ==
  IF Len(list) = 0 THEN sorted ELSE sortFrom(Tail(list), insertTuple(sorted, Head(list)))

sortTuples(list) == sortFrom(list, <<>>)

\* the loop over getAllBlocks: the tuples pushed on one of the two lists
RECURSIVE pushTuples(_, _)
pushTuples(blocks, hasReturn) ==
  IF Len(blocks) = 0 THEN <<>>
  ELSE IF HasGetProcedureDef(Head(blocks)) /\ getProcedureDef(Head(blocks))[3] = hasReturn
       THEN <<getProcedureDef(Head(blocks))>> \o pushTuples(Tail(blocks), hasReturn)
       ELSE pushTuples(Tail(blocks), hasReturn)

\* [proceduresNoReturn, proceduresReturn]
allProcedures ==
  <<sortTuples(pushTuples(getAllBlocks, FALSE)), sortTuples(pushTuples(getAllBlocks, TRUE))>>

\* ------------------------------------------------- paint undo reducer
UNDO == "scratch-paint/undo/UNDO"
REDO == "scratch-paint/undo/REDO"
SNAPSHOT == "scratch-paint/undo/SNAPSHOT"
CLEAR == "scratch-paint/undo/CLEAR"

initialState == [stack |-> <<>>, pointer |-> -1]

\* action.snapshot when the action carries no data (undefined)
NoSnapshot == "undefined"
\* snapshot objects handed to undoSnapshot
Snapshots == {"snap1", "snap2"}
NoAction == [type |-> "none", snapshot |-> NoSnapshot]

\* action creators
undo == [type |-> UNDO, snapshot |-> NoSnapshot]
redo == [type |-> REDO, snapshot |-> NoSnapshot]
undoSnapshot(snapshot) == [type |-> SNAPSHOT, snapshot |-> snapshot]
clearUndoState == [type |-> CLEAR, snapshot |-> NoSnapshot]

\* stack.slice(0, end)
slice0(stack, end) ==
  SubSeq(stack, 1, IF end < 0 THEN 0 ELSE IF end > Len(stack) THEN Len(stack) ELSE end)

\* case UNDO with the test pointer < 0
reduceUndo_belowZero(state) ==
  IF state.pointer < 0 THEN state
  ELSE [stack |-> state.stack, pointer |-> state.pointer - 1]

\* case UNDO
reduceUndo(state) ==
  IF state.pointer <= 0 THEN state
  ELSE [stack |-> state.stack, pointer |-> state.pointer - 1]

\* case REDO
reduceRedo(state) ==
  IF state.pointer <= -1 \/ state.pointer = Len(state.stack) - 1 THEN state
  ELSE [stack |-> state.stack, pointer |-> state.pointer + 1]

\* case SNAPSHOT that keeps the redo entries
reduceSnapshot_noSlice(state, action) ==
  IF action.snapshot = NoSnapshot THEN state
  ELSE [stack |-> Append(state.stack, action.snapshot),
        pointer |-> state.pointer + 1]

\* case SNAPSHOT; concat appends the snapshot object as one entry
reduceSnapshot(state, action) ==
  IF action.snapshot = NoSnapshot THEN state
  ELSE [stack |-> Append(slice0(state.stack, state.pointer + 1), action.snapshot),
        pointer |-> state.pointer + 1]

reducer(state, action) ==
  CASE action.type = UNDO -> reduceUndo(state)
    [] action.type = REDO -> reduceRedo(state)
    [] action.type = SNAPSHOT -> reduceSnapshot(state, action)
    [] action.type = CLEAR -> initialState
    [] OTHER -> state

\* store.dispatch(action)
Dispatch(action) ==
  /\ undoState' = reducer(undoState, action)
  /\ undoAction' = action
  /\ undoPrev' = undoState
  /\ UNCHANGED procVars

DispatchUndo == Dispatch(undo)
DispatchRedo == Dispatch(redo)
DispatchSnapshot(snapshot) ==
  /\ snapshot /= NoSnapshot => undoState.pointer + 2 <= MaxStack
  /\ Dispatch(undoSnapshot(snapshot))
DispatchClear == Dispatch(clearUndoState)

\* ------------------------------------------------------------------- Init
\* the second definition: a flyout copy named "A", or a definition "a2"
Def3Choices ==
  {[type |-> DefNoReturn, name |-> Name_A, isInFlyout |-> TRUE],
   [type |-> DefNoReturn, name |-> Name_a2, isInFlyout |-> FALSE],
   [type |-> DefReturn, name |-> Name_a2, isInFlyout |-> FALSE]}

MkBlock(type, name, params, isInFlyout) ==
  [type |-> type, name |-> name, params |-> params, isInFlyout |-> isInFlyout]

Init ==
  /\ \E d3 \in Def3Choices,
        c2 \in {[type |-> CallNoReturn, name |-> Name_a], [type |-> Plain, name |-> <<>>]},
        c4 \in {[type |-> CallNoReturn, name |-> Name_A], [type |-> CallReturn, name |-> Name_a]},
        with5 \in BOOLEAN :
       /\ stacks = IF with5 THEN << <<1, 2>>, <<3, 4>>, <<5>> >> ELSE << <<1, 2>>, <<3, 4>> >>
       /\ blk = [b \in Ids |->
                  CASE b = 1 -> MkBlock(DefNoReturn, Name_a, Params2, FALSE)
                    [] b = 2 -> MkBlock(c2.type, c2.name, Params1, FALSE)
                    [] b = 3 -> MkBlock(d3.type, d3.name, Params1, d3.isInFlyout)
                    [] b = 4 -> MkBlock(c4.type, c4.name, Params1, FALSE)
                    [] b = 5 -> MkBlock(CallNoReturn, Name_a, Params1, FALSE)]
  /\ pc = "idle"
  /\ frame = NoFrame
  /\ ret = NoRet
  /\ events = <<>>
  /\ group = 0
  /\ groupsOpened = 0
  /\ recordUndo = TRUE
  /\ undoState = initialState
  /\ undoAction = NoAction
  /\ undoPrev = initialState

\* ----------------------------------------------------------------- rename
\* Blockly.Procedures.rename up to the entry of the findLegalName loop
Rename_Enter(d, raw) ==
  /\ pc = "idle"
  /\ InWorkspace(d) /\ HasGetProcedureDef(d)
  /\ frame' = [block |-> d, name |-> trim(raw), legal |-> trim(raw),
               oldName |-> blk[d].name, iter |-> 0]
  /\ pc' = "findLegalName"
  /\ ret' = NoRet
  /\ UNCHANGED <<stacks, blk, events, group, groupsOpened, recordUndo>>
  /\ UNCHANGED undoVars

\* One iteration of the while loop of findLegalName
FindLegalName_Loop ==
  /\ pc = "findLegalName"
  /\ ~blk[frame.block].isInFlyout
  /\ ~isLegalName_(frame.legal, frame.block)
  /\ frame.iter < MaxIter
  /\ frame' = [frame EXCEPT !.legal = nextCandidate(frame.legal), !.iter = @ + 1]
  /\ UNCHANGED <<stacks, blk, pc, ret, events, group, groupsOpened, recordUndo>>
  /\ UNCHANGED undoVars

\* renameTargets without the comparison of the old name with the input
renameTargets_noInputTest(oldName, name, legalName) ==
  IF oldName /= legalName
  THEN SelectSeq(getAllBlocks, HasRenameProcedure)
  ELSE <<>>

\* The blocks rename calls renameProcedure on, in getAllBlocks order
renameTargets(oldName, name, legalName) ==
  IF oldName /= name /\ oldName /= legalName
  THEN SelectSeq(getAllBlocks, HasRenameProcedure)
  ELSE <<>>

RECURSIVE renameAll(_, _, _, _)
renameAll(table, targets, oldName, legalName) ==
  IF Len(targets) = 0 THEN table
  ELSE renameAll(renameProcedure(table, Head(targets), oldName, legalName),
                 Tail(targets), oldName, legalName)

\* findLegalName returns (flyout block, or the loop condition fails), rename
\* renames the callers and returns the accepted name, which the field takes
Rename_Return ==
  /\ pc = "findLegalName"
  /\ blk[frame.block].isInFlyout \/ isLegalName_(frame.legal, frame.block)
  /\ LET targets == renameTargets(frame.oldName, frame.name, frame.legal)
         renamed == renameAll(blk, targets, frame.oldName, frame.legal)
     IN /\ blk' = [renamed EXCEPT ![frame.block].name = frame.legal]
        /\ ret' = [NoRet EXCEPT !.op = "rename", !.name = frame.name,
                                !.block = frame.block, !.seq = targets,
                                !.str = frame.legal, !.old = frame.oldName]
  /\ pc' = "idle"
  /\ frame' = NoFrame
  /\ UNCHANGED <<stacks, events, group, groupsOpened, recordUndo>>
  /\ UNCHANGED undoVars

\* ------------------------------------------------------------- queries
IsNameUsed_Call(name, opt_exclude) ==
  /\ pc = "idle"
  /\ ret' = [NoRet EXCEPT !.op = "isNameUsed", !.name = name, !.block = opt_exclude,
                          !.bool = isNameUsed(name, opt_exclude)]
  /\ UNCHANGED <<stacks, blk, pc, frame, events, group, groupsOpened, recordUndo>>
  /\ UNCHANGED undoVars

GetCallers_Call(name, definitionRoot, allowRecursive) ==
  /\ pc = "idle"
  /\ definitionRoot \in Range(getTopBlocks)
  /\ ret' = [NoRet EXCEPT !.op = "getCallers", !.name = name, !.block = definitionRoot,
                          !.flag = allowRecursive,
                          !.seq = getCallers(name, definitionRoot, allowRecursive)]
  /\ UNCHANGED <<stacks, blk, pc, frame, events, group, groupsOpened, recordUndo>>
  /\ UNCHANGED undoVars

AllProcedures_Call ==
  /\ pc = "idle"
  /\ ret' = [NoRet EXCEPT !.op = "allProcedures", !.seq = allProcedures[1],
                          !.seq2 = allProcedures[2]]
  /\ UNCHANGED <<stacks, blk, pc, frame, events, group, groupsOpened, recordUndo>>
  /\ UNCHANGED undoVars

\* ---------------------------------------------------------- mutateCallers
\* The for loop over the callers: the block table and the events fired
RECURSIVE mutateLoop(_, _, _, _)
mutateLoop(callers, xmlElement, table, fired) ==
  IF Len(callers) = 0 THEN [table |-> table, fired |-> fired]
  ELSE LET caller == Head(callers)
           oldMutation == [name |-> table[caller].name, params |-> table[caller].params]
           applied == domToMutation(table, caller, xmlElement)
           newMutation == [name |-> applied[caller].name, params |-> applied[caller].params]
       IN mutateLoop(Tail(callers), xmlElement, applied,
            IF oldMutation /= newMutation
            THEN Append(fired, [type |-> "change", block |-> caller, ids |-> <<>>,
                                oldValue |-> oldMutation, newValue |-> newMutation,
                                group |-> group, recordUndo |-> FALSE])
            ELSE fired)

\* getCallers(name, defBlock.workspace): definitionRoot and allowRecursive
\* are not passed
MutateCallers(defBlock) ==
  /\ pc = "idle"
  /\ InWorkspace(defBlock) /\ HasGetProcedureDef(defBlock)
  /\ LET name == getProcedureDef(defBlock)[1]
         xmlElement == mutationToDom(defBlock)
     IN IF getCallersThrows(NoBlock)
        THEN /\ ret' = [NoRet EXCEPT !.op = "mutateCallers", !.name = name,
                                     !.block = defBlock, !.threw = TRUE]
             /\ UNCHANGED <<blk, events>>
        ELSE LET r == mutateLoop(getCallers(name, NoBlock, FALSE), xmlElement, blk, <<>>)
             IN /\ blk' = r.table
                /\ events' = events \o r.fired
                /\ ret' = [NoRet EXCEPT !.op = "mutateCallers", !.name = name,
                                        !.block = defBlock, !.seq = r.fired]
  /\ UNCHANGED <<stacks, pc, frame, group, groupsOpened, recordUndo>>
  /\ UNCHANGED undoVars

\* ------------------------------------------- deleteProcedureDefCallback
\* dispose that heals the stack: only the top block leaves
dispose_healStack(definitionRoot) ==
  LET i == CHOOSE j \in 1..Len(stacks) : Head(stacks[j]) = definitionRoot
  IN SubSeq(stacks, 1, i - 1)
       \o (IF Len(stacks[i]) > 1 THEN <<Tail(stacks[i])>> ELSE <<>>)
       \o SubSeq(stacks, i + 1, Len(stacks))

\* definitionRoot.dispose(): the stack leaves the workspace
dispose(definitionRoot) == SelectSeq(stacks, LAMBDA s : Head(s) /= definitionRoot)

\* dispose called before the group is opened
disposeGroup_beforeOpen == group

\* Blockly.Events.setGroup(true) before dispose: the events of the disposal
\* carry a group of their own
disposeGroup == groupsOpened + 1

\* Blockly.Events.setGroup(false): no group after the disposal
closedGroup == 0

\* the guard with an off-by-one comparison
hasCallers_moreThanOne(callers) == Len(callers) > 1

\* if (callers.length > 0) return false
hasCallers(callers) == Len(callers) > 0

DeleteProcedureDefCallback(procCode, definitionRoot) ==
  /\ pc = "idle"
  /\ definitionRoot \in Range(getTopBlocks) /\ HasGetProcedureDef(definitionRoot)
  /\ LET callers == getCallers(procCode, definitionRoot, FALSE)
     IN IF hasCallers(callers)
        THEN /\ ret' = [NoRet EXCEPT !.op = "delete", !.name = procCode,
                                     !.block = definitionRoot, !.bool = FALSE]
             /\ UNCHANGED <<stacks, events, group, groupsOpened>>
        ELSE /\ stacks' = dispose(definitionRoot)
             /\ groupsOpened' = groupsOpened + 1
             /\ events' = Append(events,
                   [type |-> "delete", block |-> definitionRoot,
                    ids |-> getDescendants(definitionRoot), oldValue |-> <<>>,
                    newValue |-> <<>>, group |-> disposeGroup,
                    recordUndo |-> recordUndo])
             /\ group' = closedGroup
             /\ ret' = [NoRet EXCEPT !.op = "delete", !.name = procCode,
                                     !.block = definitionRoot, !.bool = TRUE]
  /\ UNCHANGED <<blk, pc, frame, recordUndo>>
  /\ UNCHANGED undoVars

\* ------------------------------------------------------------------- Next
Next ==
  \/ \E d \in Ids, raw \in RawNames : Rename_Enter(d, raw)
  \/ FindLegalName_Loop
  \/ Rename_Return
  \/ \E name \in QueryNames, x \in {NoBlock, 1, 3} : IsNameUsed_Call(name, x)
  \/ \E name \in QueryNames, root \in Ids, rec \in BOOLEAN : GetCallers_Call(name, root, rec)
  \/ \E d \in Ids : MutateCallers(d)
  \/ \E name \in QueryNames, root \in Ids : DeleteProcedureDefCallback(name, root)

Spec == Init /\ [][Next]_vars

\* workspaces for allProcedures: three definitions of either kind, with
\* names that may coincide up to case, each with its own parameter list
ProcNames == {Name_a, Name_A, Name_a2}
Params0 == <<>>

AllProcInit ==
  /\ stacks = << <<1, 2>>, <<3, 4>>, <<5>> >>
  /\ \E t1 \in {DefNoReturn, DefReturn}, t3 \in {DefNoReturn, DefReturn},
        t5 \in {DefNoReturn, DefReturn}, n1 \in ProcNames, n3 \in ProcNames,
        n5 \in ProcNames :
       blk = [b \in Ids |->
                CASE b = 1 -> MkBlock(t1, n1, Params2, FALSE)
                  [] b = 2 -> MkBlock(CallNoReturn, n1, Params2, FALSE)
                  [] b = 3 -> MkBlock(t3, n3, Params1, FALSE)
                  [] b = 4 -> MkBlock(Plain, <<>>, Params0, FALSE)
                  [] b = 5 -> MkBlock(t5, n5, Params0, FALSE)]
  /\ pc = "idle"
  /\ frame = NoFrame
  /\ ret = NoRet
  /\ events = <<>>
  /\ group = 0
  /\ groupsOpened = 0
  /\ recordUndo = TRUE
  /\ undoState = initialState
  /\ undoAction = NoAction
  /\ undoPrev = initialState

AllProcNext == AllProcedures_Call

AllProcSpec == AllProcInit /\ [][AllProcNext]_vars

UndoNext ==
  \/ DispatchUndo
  \/ DispatchRedo
  \/ \E snapshot \in Snapshots \cup {NoSnapshot} : DispatchSnapshot(snapshot)
  \/ DispatchClear

UndoSpec == Init /\ [][UndoNext]_vars

\* ======================================================== properties
\* definition blocks of the workspace, and those outside flyouts
Definitions == {b \in Range(getAllBlocks) : HasGetProcedureDef(b)}
WorkspaceDefinitions == {b \in Definitions : ~blk[b].isInFlyout}

\* some definition other than x is named name, case-insensitively
NameTaken(name, x) == \E b \in Definitions \ {x} : NamesEquals(blk[b].name, name)

\* blocks of the top-level stacks other than the one rooted at root
OutsideStack(root) == UNION {Range(stacks[i]) : i \in {j \in 1..Len(stacks) : Head(stacks[j]) /= root}}

\* a deleteProcedureDefCallback step, seen from its first state
DeleteStep == ret'.op = "delete" /\ vars' /= vars

\* the stack rooted at root was disposed by the step
StackDisposed(root) ==
  /\ \A b \in Range(getDescendants(root)) : b \notin Range(Flatten(stacks'))
  /\ stacks' = SelectSeq(stacks, LAMBDA st : Head(st) /= root)

C7_RecursiveOnlyDeletable ==
  [][(/\ DeleteStep
      /\ blk[ret'.block].name = ret'.name
      /\ \E b \in Range(getDescendants(ret'.block)) :
            blk[b].type = CallNoReturn /\ blk[b].name = ret'.name
      /\ \A b \in OutsideStack(ret'.block) :
            ~(blk[b].type = CallNoReturn /\ blk[b].name = ret'.name))
     => ret'.bool = TRUE /\ StackDisposed(ret'.block)]_vars

\* C7 witness: a definition that called itself has been deleted
C7_Witness ==
  /\ ret.op = "delete" /\ ret.bool = TRUE /\ blk[ret.block].name = ret.name
  /\ Len(events) > 0
  /\ events[Len(events)].block = ret.block
  /\ \E b \in Range(events[Len(events)].ids) :
        blk[b].type = CallNoReturn /\ blk[b].name = ret.name

\* C8: isNameUsed(name, workspace, excludeBlock) is true iff some block other
\* than excludeBlock is a definition named name, case-insensitively.
C8_IsNameUsedIffTaken ==
  ret.op = "isNameUsed" => (ret.bool <=> NameTaken(ret.name, ret.block))

\* C2: the name findLegalName returns for a block outside flyouts is one no
\* other definition block has.
C2_LegalNameNotTaken ==
  (ret.op = "rename" /\ ~blk[ret.block].isInFlyout) => ~NameTaken(ret.str, ret.block)

\* C3: no two definition blocks outside flyouts have names that are equal
\* case-insensitively, after any sequence of renames.
C3_NamesUnique ==
  \A b1 \in WorkspaceDefinitions : \A b2 \in WorkspaceDefinitions :
     b1 /= b2 => ~NamesEquals(blk[b1].name, blk[b2].name)

\* C6: rename with a new name whose trimmed form is the field's current name
\* x returns x and calls renameProcedure on no block.
C6_IdempotentRename ==
  (ret.op = "rename" /\ ret.name = ret.old) => (ret.str = ret.old /\ ret.seq = <<>>)

\* call blocks (procedures_callnoreturn) of the workspace whose procCode is name
CallBlocksOf(name) ==
  {b \in Range(getAllBlocks) : blk[b].type = CallNoReturn /\ blk[b].name = name}

\* C4: after mutateCallers(defBlock) every call block whose procCode is the
\* definition's name, recursive calls included, holds the definition's
\* snapshot.
C4_PropagationClosure ==
  ret.op = "mutateCallers" =>
     \A b \in CallBlocksOf(blk[ret.block].name) : mutationToDom(b) = mutationToDom(ret.block)

\* the callers of the definition whose snapshot is not the definition's, in
\* traversal order
StaleCallers(defBlock) ==
  SelectSeq(getAllBlocks,
            LAMBDA b : b \in CallBlocksOf(blk[defBlock].name)
                       /\ mutationToDom(b) /= mutationToDom(defBlock))

\* C5: one mutateCallers call fires exactly one 'mutation' change event, old
\* and new snapshot attached, for each caller whose snapshot changes, none
\* for the others, in the traversal order of the callers.
C5_OneEventPerChangedCaller ==
  [][(ret'.op = "mutateCallers" /\ vars' /= vars) =>
       LET stale == StaleCallers(ret'.block)
       IN /\ Len(ret'.seq) = Len(stale)
          /\ \A i \in 1..Len(stale) :
                /\ ret'.seq[i].block = stale[i]
                /\ ret'.seq[i].oldValue = mutationToDom(stale[i])
                /\ ret'.seq[i].newValue = mutationToDom(ret'.block)]_vars

\* the blocks of the workspace that have renameProcedure
RenameCapable == {b \in Range(getAllBlocks) : HasRenameProcedure(b)}

\* C9 as stated: whenever the accepted name differs from the old name,
\* renameProcedure is invoked on every capable block, also when the trimmed
\* input equals the old name.
C9_PropagatesWheneverAcceptedDiffers ==
  (ret.op = "rename" /\ ret.str /= ret.old) => Range(ret.seq) = RenameCapable

\* C9, amended: renameProcedure(oldName, acceptedName) is invoked once on
\* every capable block when the accepted name and the trimmed input both
\* differ from the old name, and on no block when the trimmed input equals
\* the old name.
C9_PropagatesWhenInputDiffers ==
  ret.op = "rename" =>
     /\ (ret.str /= ret.old /\ ret.name /= ret.old)
           => (Range(ret.seq) = RenameCapable /\ Len(ret.seq) = Cardinality(RenameCapable))
     /\ ret.name = ret.old => ret.seq = <<>>

\* C9 witness: a rename to a different accepted name reached two call blocks
C9_Witness ==
  /\ ret.op = "rename" /\ ret.str /= ret.old /\ ret.name /= ret.old
  /\ Len(ret.seq) >= 2

\* position of a block in the workspace: <<stack index, index in the stack>>
StackOf(b) == CHOOSE i \in 1..Len(stacks) : b \in Range(stacks[i])
IndexIn(b) == CHOOSE k \in 1..Len(stacks[StackOf(b)]) : stacks[StackOf(b)][k] = b
Before(b1, b2) ==
  \/ StackOf(b1) < StackOf(b2)
  \/ StackOf(b1) = StackOf(b2) /\ IndexIn(b1) < IndexIn(b2)

\* blocks getCallers is to look at
Investigated(definitionRoot, allowRecursive) ==
  IF allowRecursive THEN Range(getAllBlocks) ELSE OutsideStack(definitionRoot)

\* the result lists each block of the set once, in workspace order
ListsInOrder(seq, set) ==
  /\ Range(seq) = set
  /\ Len(seq) = Cardinality(set)
  /\ \A i \in 1..Len(seq) : \A j \in 1..Len(seq) : i < j => Before(seq[i], seq[j])

PointerInRange(state) ==
  /\ -1 <= state.pointer /\ state.pointer <= Len(state.stack) - 1
  /\ state.pointer = -1 <=> Len(state.stack) = 0

\* C14: in every state reached by UNDO, REDO, SNAPSHOT and CLEAR actions
\* -1 <= pointer <= stack.length - 1, and pointer = -1 exactly when the stack
\* is empty; UNDO never takes the pointer below 0, REDO never above
\* stack.length - 1, and a refused UNDO or REDO and a SNAPSHOT without data
\* return the state unchanged.
C14_UndoPointerInRange ==
  /\ PointerInRange(undoState)
  /\ undoAction.type = UNDO =>
        /\ undoPrev.pointer >= 0 => undoState.pointer >= 0
        /\ undoPrev.pointer <= 0 => undoState = undoPrev
  /\ undoAction.type = REDO =>
        /\ undoState.pointer <= Len(undoPrev.stack) - 1
        /\ (undoPrev.pointer = -1 \/ undoPrev.pointer = Len(undoPrev.stack) - 1)
              => undoState = undoPrev
  /\ (undoAction.type = SNAPSHOT /\ undoAction.snapshot = NoSnapshot)
        => undoState = undoPrev

\* C14 witness: an UNDO was refused at the bottom of a stack of two entries
C14_Witness ==
  /\ undoAction.type = UNDO /\ undoPrev.pointer = 0 /\ Len(undoPrev.stack) >= 2
  /\ undoState = undoPrev

\* C15: a SNAPSHOT with data taken at pointer p yields the first p+1 entries
\* of the previous stack followed by the snapshot, with pointer p+1 the last
\* index, so a REDO right after it changes nothing; UNDO and REDO never change
\* the stack, and an effective UNDO followed by REDO gives the state back.
C15_SnapshotDropsRedo ==
  /\ (undoAction.type = SNAPSHOT /\ undoAction.snapshot /= NoSnapshot) =>
        LET p == undoPrev.pointer
        IN /\ Len(undoState.stack) = p + 2
           /\ \A i \in 1..(p + 1) : undoState.stack[i] = undoPrev.stack[i]
           /\ undoState.stack[p + 2] = undoAction.snapshot
           /\ undoState.pointer = p + 1
           /\ undoState.pointer = Len(undoState.stack) - 1
           /\ reducer(undoState, redo) = undoState
  /\ undoAction.type \in {UNDO, REDO} => undoState.stack = undoPrev.stack
  /\ (undoAction.type = UNDO /\ undoState /= undoPrev)
        => reducer(undoState, redo) = undoPrev

\* C15 witness: a snapshot was taken while two entries were redoable
C15_Witness ==
  /\ undoAction.type = SNAPSHOT /\ undoAction.snapshot /= NoSnapshot
  /\ undoPrev.pointer + 2 < Len(undoPrev.stack)
  /\ undoPrev.pointer >= 0

\* ------------------------------------------------ allProcedures properties
\* the definition block a tuple was taken from
BlockOfTuple(t) == CHOOSE b \in Definitions : getProcedureDef(b) = t

\* position of a block in getAllBlocks
PositionOf(b) == CHOOSE i \in 1..Len(getAllBlocks) : getAllBlocks[i] = b

\* strict lexicographic order of two lower-case names
RECURSIVE LexLess(_, _)
LexLess(s, t) ==
  IF Len(t) = 0 THEN FALSE
  ELSE IF Len(s) = 0 THEN TRUE
  ELSE IF Head(s) = Head(t) THEN LexLess(Tail(s), Tail(t))
  ELSE CharRank(Head(s)) < CharRank(Head(t))

\* list is sorted by case-insensitive name, equal names in workspace order
SortedStable(list) ==
  \A i \in 1..Len(list) : \A j \in 1..Len(list) :
     i < j =>
        \/ LexLess(toLowerCase(list[i][1]), toLowerCase(list[j][1]))
        \/ /\ NamesEquals(list[i][1], list[j][1])
           /\ PositionOf(BlockOfTuple(list[i])) < PositionOf(BlockOfTuple(list[j]))

\* C11: allProcedures returns (noReturnList, returnList) holding exactly the
\* tuples of the definition blocks, split by the return flag, each list
\* sorted by case-insensitive name with equal names in workspace order; the
\* call changes no workspace state.
C11_AllProceduresSortedStable ==
  /\ [](ret.op = "allProcedures" =>
          /\ Range(ret.seq) = {getProcedureDef(b) : b \in {d \in Definitions : blk[d].type = DefNoReturn}}
          /\ Range(ret.seq2) = {getProcedureDef(b) : b \in {d \in Definitions : blk[d].type = DefReturn}}
          /\ Len(ret.seq) + Len(ret.seq2) = Cardinality(Definitions)
          /\ \A i \in 1..Len(ret.seq) : ret.seq[i][3] = FALSE
          /\ \A i \in 1..Len(ret.seq2) : ret.seq2[i][3] = TRUE
          /\ SortedStable(ret.seq)
          /\ SortedStable(ret.seq2))
  /\ [][ret'.op = "allProcedures" =>
          UNCHANGED <<stacks, blk, events, group, groupsOpened, recordUndo>>]_vars

\* C11 witness: a list of three where the first two names differ only in
\* case, the upper-case one first, and the sort moved the third behind them
C11_Witness ==
  /\ ret.op = "allProcedures" /\ Len(ret.seq) = 3
  /\ ret.seq[1][1] = Name_A /\ ret.seq[2][1] = Name_a
  /\ PositionOf(BlockOfTuple(ret.seq[3])) < PositionOf(BlockOfTuple(ret.seq[2]))

\* ------------------------------------------------- deletion event group
\* C13: when deleteProcedureDefCallback succeeds, the blocks of the stack
\* are disposed between one setGroup(true) and one setGroup(false): the
\* disposal events carry one group, which no earlier event has, they cover
\* the whole stack, and no group is open when the call returns.
C13_AtomicDeletion ==
  [][(DeleteStep /\ ret'.bool = TRUE) =>
       LET fired == SubSeq(events', Len(events) + 1, Len(events'))
       IN /\ Len(fired) >= 1
          /\ groupsOpened' = groupsOpened + 1
          /\ \A i \in 1..Len(fired) :
                /\ fired[i].type = "delete"
                /\ fired[i].group = fired[1].group
                /\ fired[i].group /= closedGroup
          /\ \A i \in 1..Len(events) : events[i].group /= fired[1].group
          /\ UNION {Range(fired[i].ids) : i \in 1..Len(fired)}
                = Range(getDescendants(ret'.block))
          /\ group' = closedGroup]_vars

\* C13 witness: two stacks of two blocks were deleted, each under its group
C13_Witness ==
  /\ ret.op = "delete" /\ ret.bool = TRUE
  /\ Len(events) = 2
  /\ Len(events[1].ids) = 2 /\ Len(events[2].ids) = 2
  /\ events[1].group /= events[2].group
  /\ group = closedGroup

====
